---- MODULE Spec2Model ----
(***************************************************************************)
(* Model of the system-config syncer of multiarch-operator                 *)
(* (package system_config): the in-memory registries / policy /            *)
(* certificate model, the five mutation operations, the unbuffered change  *)
(* channel and the single syncer goroutine that writes the model to disk.  *)
(*                                                                         *)
(* Go semantics that matter here and are modelled as the language defines  *)
(* them:                                                                   *)
(*  - registriesConf and policyConf methods have VALUE receivers: an       *)
(*    assignment to a field of the receiver (rsc.Registries = append(...), *)
(*    pc.Transports = ...) changes the copy only; a write THROUGH a map or *)
(*    a pointer held by the copy is visible to the caller;                 *)
(*  - defaultRegistriesConf leaves registriesMap nil: reading a nil map    *)
(*    yields the zero value, writing to it panics;                         *)
(*  - a panic runs the deferred mu.Unlock and, nothing in the repository   *)
(*    recovering it, ends the process;                                     *)
(*  - sync.Mutex is not FIFO: any goroutine waiting in Lock may win;       *)
(*  - make(chan bool) has no buffer: a sender parks until the receiver     *)
(*    takes its value.                                                     *)
(***************************************************************************)
EXTENDS Integers, Sequences, FiniteSets, TLC

\* ------------------------------------------------------------------ bounds
NumMutators == 2
MaxCalls == 2
MaxFailures == 1

Mutators == 1..NumMutators
Worker == 0
NoOne == -1

\* --------------------------------------------------------------- the inputs
Regs == {"a", "b"}
AllowedLists == {<<>>, <<"a">>}
BlockedLists == {<<>>, <<"b">>}
InsecureLists == {<<>>, <<"a">>}
MirrorLists == {<<>>, <<"m">>}

CertT1 == [registry |-> <<"r">>, cert |-> "c1"]
CertT2 == [registry |-> <<"r", ".", ".", "5">>, cert |-> "c2"]
CertLists == {<<>>, <<CertT1>>, <<CertT2>>, <<CertT2, CertT1>>}

\* Registry names handed to getFolderName, as their characters.
MaxNameLen == 4
NameChars == {"d", ".", "5"}
DockerIo == <<"d", "o", "c", "k", "e", "r", ".", "i", "o">>
DockerIo5000 == DockerIo \o <<".", ".", "5", "0", "0", "0">>
TwoEscapes == <<"d", ".", ".", "5", ".", ".", "5">>
Names ==
    UNION {[1..n -> NameChars] : n \in 0..MaxNameLen}
        \cup {DockerIo, DockerIo5000, TwoEscapes}

Nil == "nil"
TrueValue == "true"

\* ------------------------------------------------------- part_001: constants
dockerDaemonTransport == "docker-daemon"
dockerTransport == "docker"
atomicTransport == "atomic"
TransportNames == {dockerDaemonTransport, dockerTransport, atomicTransport}

insecureAcceptAnythingPolicyEntry == [Type |-> "insecureAcceptAnything"]
rejectPolicyEntry == [Type |-> "reject"]

\* A Go map[string][]policyEntry: the set of its keys and the value per key.
EmptyRuleMap == [keys |-> {}, val |-> [k \in Regs \cup {""} |-> <<>>]]

defaultTransports ==
    [t \in TransportNames |->
        IF t = dockerDaemonTransport
        THEN [keys |-> {""},
              val |-> [k \in Regs \cup {""} |->
                          IF k = "" THEN <<insecureAcceptAnythingPolicyEntry>>
                          ELSE <<>>]]
        ELSE EmptyRuleMap]

defaultPolicyConf ==
    [Default |-> <<insecureAcceptAnythingPolicyEntry>>,
     Transports |-> defaultTransports]

\* The zero registryConf a location's pointer refers to before it is created.
NewRegistryConf(registry) ==
    [Location |-> registry, Prefix |-> "", Mirrors |-> <<>>,
     Blocked |-> Nil, Allowed |-> Nil, Insecure |-> Nil]

\* registriesMap is left unset by the composite literal: a nil map.
defaultRegistriesConf ==
    [UnqualifiedSearchRegistries |-> <<"registry.access.redhat.com", "docker.io">>,
     ShortNameMode |-> "",
     Registries |-> <<>>,
     registriesMap |-> [isNil |-> TRUE, keys |-> {}]]

\* ---------------------------------------------------------------- variables
VARIABLES
    registriesConfContent,  \* s.registriesConfContent (Registries: sequence of
                            \* pointers, registriesMap: nil or keys -> pointer)
    registryConfs,          \* the *registryConf objects, by the location they
                            \* were created for
    policyConfContent,      \* s.policyConfContent
    registryCertTuples,     \* s.registryCertTuples
    mu,                     \* s.mu: NoOne or the goroutine holding it
    ch,                     \* s.ch: senders whose value is not yet received
    pc,                     \* position of each mutator goroutine
    call,                   \* operation and arguments of the call in progress
    ret,                    \* what the mutator's last call returned
    wpc,                    \* position of the syncer goroutine
    wi,                     \* index of the sync() loop over registryCertTuples
    diskRegistries,         \* content of RegistriesConfPath
    diskPolicy,             \* content of PolicyConfPath
    diskCerts,              \* directories under DockerCertsDir -> ca.crt
    crashed,                \* the process has exited on an unrecovered panic
    calls,                  \* number of calls issued so far
    failures,               \* number of filesystem failures so far
    fn,                     \* a getFolderName evaluation: argument and result
    hist                    \* observations of the run (not program state)

vars == <<registriesConfContent, registryConfs, policyConfContent,
          registryCertTuples, mu, ch, pc, call, ret, wpc, wi,
          diskRegistries, diskPolicy, diskCerts, crashed, calls, failures,
          fn, hist>>

modelVars == <<registriesConfContent, registryConfs, policyConfContent,
               registryCertTuples>>
diskVars == <<diskRegistries, diskPolicy, diskCerts>>


\* ------------------------------------------------ part_001: the model's code
\* Mutant of ReplaceFirstDotDot: strings.ReplaceAll, every ".." replaced.
RECURSIVE ReplaceAllDotDot(_)
ReplaceAllDotDot(s) ==
    IF Len(s) < 2 THEN s
    ELSE IF s[1] = "." /\ s[2] = "."
         THEN <<":">> \o ReplaceAllDotDot(SubSeq(s, 3, Len(s)))
         ELSE <<s[1]>> \o ReplaceAllDotDot(Tail(s))

\* strings.Replace(s, "..", ":", 1) on a string given as its characters.
RECURSIVE ReplaceFirstDotDot(_)
ReplaceFirstDotDot(s) ==
    IF Len(s) < 2 THEN s
    ELSE IF s[1] = "." /\ s[2] = "."
         THEN <<":">> \o SubSeq(s, 3, Len(s))
         ELSE <<s[1]>> \o ReplaceFirstDotDot(Tail(s))

getFolderName(t) == ReplaceFirstDotDot(t.registry)

\* Value receiver: rsc is the callee's copy.  The map is shared with the
\* caller (a write to a nil map panics); the appended slice is stored in the
\* copy's Registries field and never reaches the caller.
getRegistryConfOrCreate(rsc, objs, registry) ==
    IF ~rsc.registriesMap.isNil /\ registry \in rsc.registriesMap.keys
    THEN [panic |-> FALSE, rsc |-> rsc, objs |-> objs]
    ELSE IF rsc.registriesMap.isNil
         THEN [panic |-> TRUE, rsc |-> rsc, objs |-> objs]
         ELSE LET copy == [rsc EXCEPT !.registriesMap.keys = @ \cup {registry},
                                      !.Registries = Append(@, registry)]
              IN  [panic |-> FALSE,
                   rsc |-> [rsc EXCEPT !.registriesMap = copy.registriesMap],
                   objs |-> [objs EXCEPT ![registry] = NewRegistryConf(registry)]]

\* rc, ok := rsc.registriesMap[registry]
getRegistryConf(rsc, registry) ==
    ~rsc.registriesMap.isNil /\ registry \in rsc.registriesMap.keys

\* Value receiver: pc.Transports = defaultTransports() assigns to the copy.
resetTransports(pol) ==
    LET copy == [pol EXCEPT !.Transports = defaultTransports]
    IN  pol

\* pc.Transports[transport][registry] = []policyEntry{rejectPolicyEntry()}:
\* a write through the map the copy shares with the caller.
setRejectForRegistryOnTransport(pol, registry, transport) ==
    [pol EXCEPT !.Transports[transport] =
        [keys |-> @.keys \cup {registry},
         val |-> [@.val EXCEPT ![registry] = <<rejectPolicyEntry>>]]]

setRejectForRegistry(pol, registry) ==
    setRejectForRegistryOnTransport(
        setRejectForRegistryOnTransport(pol, registry, dockerTransport),
        registry, atomicTransport)

\* ----------------------------------------- part_000: the mutation bodies
\* A body works on M = [rsc, objs, pol] and yields [panic, M].

\* for _, rc := range s.registriesConfContent.Registries { rc.X = nil ... }
RECURSIVE ResetFlags(_, _)
ResetFlags(objs, ptrs) ==
    IF ptrs = <<>> THEN objs
    ELSE ResetFlags([objs EXCEPT ![Head(ptrs)].Allowed = Nil,
                                 ![Head(ptrs)].Blocked = Nil,
                                 ![Head(ptrs)].Insecure = Nil], Tail(ptrs))

RECURSIVE ApplyAllowed(_, _)
ApplyAllowed(M, regs) ==
    IF regs = <<>> THEN [panic |-> FALSE, M |-> M]
    ELSE LET g == getRegistryConfOrCreate(M.rsc, M.objs, Head(regs))
         IN  IF g.panic THEN [panic |-> TRUE, M |-> M]
             ELSE ApplyAllowed(
                    [M EXCEPT !.rsc = g.rsc,
                              !.objs = [g.objs EXCEPT ![Head(regs)].Allowed = TrueValue,
                                                      ![Head(regs)].Blocked = Nil]],
                    Tail(regs))

RECURSIVE ApplyBlocked(_, _)
ApplyBlocked(M, regs) ==
    IF regs = <<>> THEN [panic |-> FALSE, M |-> M]
    ELSE LET g == getRegistryConfOrCreate(M.rsc, M.objs, Head(regs))
         IN  IF g.panic THEN [panic |-> TRUE, M |-> M]
             ELSE ApplyBlocked(
                    [M EXCEPT !.rsc = g.rsc,
                              !.objs = [g.objs EXCEPT ![Head(regs)].Allowed = Nil,
                                                      ![Head(regs)].Blocked = TrueValue],
                              !.pol = setRejectForRegistry(@, Head(regs))],
                    Tail(regs))

RECURSIVE ApplyInsecure(_, _)
ApplyInsecure(M, regs) ==
    IF regs = <<>> THEN [panic |-> FALSE, M |-> M]
    ELSE LET g == getRegistryConfOrCreate(M.rsc, M.objs, Head(regs))
         IN  IF g.panic THEN [panic |-> TRUE, M |-> M]
             ELSE ApplyInsecure(
                    [M EXCEPT !.rsc = g.rsc,
                              !.objs = [g.objs EXCEPT ![Head(regs)].Insecure = TrueValue]],
                    Tail(regs))

\* Lines 38-62 of StoreImageRegistryConf, run with the lock held.
StoreImageRegistryConfBody(M, allowedRegistries, blockedRegistries, insecureRegistries) ==
    LET M0 == [M EXCEPT !.objs = ResetFlags(@, M.rsc.Registries),
                        !.pol = resetTransports(@)]
        A == ApplyAllowed(M0, allowedRegistries)
        B == IF A.panic THEN A ELSE ApplyBlocked(A.M, blockedRegistries)
        I == IF B.panic THEN B ELSE ApplyInsecure(B.M, insecureRegistries)
    IN  I

\* Lines 78-79 of UpdateRegistryMirroringConfig.
UpdateRegistryMirroringConfigBody(M, registry, mirrors) ==
    LET g == getRegistryConfOrCreate(M.rsc, M.objs, registry)
    IN  IF g.panic THEN [panic |-> TRUE, M |-> M]
        ELSE [panic |-> FALSE,
              M |-> [M EXCEPT !.rsc = g.rsc,
                              !.objs = [g.objs EXCEPT ![registry].Mirrors = mirrors]]]

\* for _, registry := range s.registriesConfContent.Registries { registry.Mirrors = []string{} }
RECURSIVE ClearMirrorsOf(_, _)
ClearMirrorsOf(objs, ptrs) ==
    IF ptrs = <<>> THEN objs
    ELSE ClearMirrorsOf([objs EXCEPT ![Head(ptrs)].Mirrors = <<>>], Tail(ptrs))


\* --------------------------------------------------- what reaches the disk
\* toml encoding of a registryConf: nil flags are omitted from the block.
tomlBlock(rc) ==
    [location |-> rc.Location, prefix |-> rc.Prefix, mirror |-> rc.Mirrors,
     flags |-> {f \in {"blocked", "allowed", "insecure"} :
                   \/ f = "blocked" /\ rc.Blocked /= Nil
                   \/ f = "allowed" /\ rc.Allowed /= Nil
                   \/ f = "insecure" /\ rc.Insecure /= Nil}]

\* toml.NewEncoder(f).Encode(rsc): registriesMap carries toml:"-".
tomlEncode(rsc, objs) ==
    [unqualifiedSearchRegistries |-> rsc.UnqualifiedSearchRegistries,
     shortNameMode |-> rsc.ShortNameMode,
     registries |-> [i \in 1..Len(rsc.Registries) |->
                        tomlBlock(objs[rsc.Registries[i]])]]

\* json.NewEncoder(f).Encode(pc)
jsonEncode(pol) ==
    [default |-> [i \in 1..Len(pol.Default) |-> pol.Default[i].Type],
     transports |-> [t \in TransportNames |->
        {<<k, [i \in 1..Len(pol.Transports[t].val[k]) |->
                  pol.Transports[t].val[k][i].Type]>> :
            k \in pol.Transports[t].keys}]]

Absent == [state |-> "absent"]
Partial == [state |-> "partial"]
Written(content) == [state |-> "written", content |-> content]

Folders == {getFolderName(t) : t \in {CertT1, CertT2}}
NoDir == "nodir"
NoFile == "nofile"
PartialFile == "partialfile"

\* ------------------------------------------------------------------- Init
NoCall == [op |-> "none", allowed |-> <<>>, blocked |-> <<>>, insecure |-> <<>>,
           registry |-> "", mirrors |-> <<>>, certs |-> <<>>,
           err |-> "nil", delivered |-> FALSE, ver |-> 0]

\* Mutant of chCap: make(chan bool, 1), room for one value.
chCap_Buffered == Len(<<TRUE>>)

\* No getFolderName evaluation outside the writing of a certificate.
NoEvaluation == [arg |-> <<>>, result |-> <<>>, done |-> FALSE]

\* make(chan bool): capacity 0.
chCap == 0

InitSyncer ==
    /\ registriesConfContent = defaultRegistriesConf
    /\ registryConfs = [r \in Regs |-> NewRegistryConf(r)]
    /\ policyConfContent = defaultPolicyConf
    /\ registryCertTuples = <<>>
    /\ mu = NoOne
    /\ ch = <<>>
    /\ pc = [m \in Mutators |-> "idle"]
    /\ call = [m \in Mutators |-> NoCall]
    /\ ret = [m \in Mutators |-> "none"]
    /\ wpc = "recv"
    /\ wi = 1
    /\ diskRegistries = Absent
    /\ diskPolicy = Absent
    /\ diskCerts = [f \in Folders |-> NoDir]
    /\ crashed = FALSE
    /\ calls = 0
    /\ failures = 0
    /\ hist = [accepted |-> 0, passes |-> 0, ver |-> 0, trig |-> 0,
               trigCall |-> NoCall, successes |-> 0,
               lastPass |-> [ok |-> FALSE, tuples |-> <<>>,
                             tree |-> [f \in Folders |-> NoDir]]]

Init == InitSyncer /\ fn = NoEvaluation

\* The model as the mutation bodies see it.
CurM == [rsc |-> registriesConfContent, objs |-> registryConfs,
         pol |-> policyConfContent]

SetM(M) ==
    /\ registriesConfContent' = M.rsc
    /\ registryConfs' = M.objs
    /\ policyConfContent' = M.pol

workerVars == <<wpc, wi>>

\* ------------------------------------------------- the mutators: call entry
CanCall(m) == ~crashed /\ pc[m] = "idle" /\ calls < MaxCalls

\* Mutant of CallStoreImageRegistryConf: the argument check is missing.
CallStoreImageRegistryConf_NoCheck(m) ==
    /\ CanCall(m)
    /\ \E al \in AllowedLists, bl \in BlockedLists, il \in InsecureLists :
         call' = [call EXCEPT ![m] =
                    [NoCall EXCEPT !.op = "StoreImageRegistryConf",
                                   !.allowed = al, !.blocked = bl, !.insecure = il]]
    /\ pc' = [pc EXCEPT ![m] = "lock"]
    /\ calls' = calls + 1
    /\ UNCHANGED <<modelVars, mu, ch, ret, workerVars, diskVars, crashed, fn, failures, hist>>

\* StoreImageRegistryConf, lines 32-36: the argument check precedes the lock;
\* with both lists non-empty the call is on its way out with the error.
CallStoreImageRegistryConf(m) ==
    /\ CanCall(m)
    /\ \E al \in AllowedLists, bl \in BlockedLists, il \in InsecureLists :
         IF Len(al) > 0 /\ Len(bl) > 0
         THEN /\ call' = [call EXCEPT ![m] =
                    [NoCall EXCEPT !.op = "StoreImageRegistryConf",
                                   !.allowed = al, !.blocked = bl, !.insecure = il,
                                   !.err = "InvalidArgument"]]
              /\ pc' = [pc EXCEPT ![m] = "return"]
         ELSE /\ call' = [call EXCEPT ![m] =
                    [NoCall EXCEPT !.op = "StoreImageRegistryConf",
                                   !.allowed = al, !.blocked = bl, !.insecure = il]]
              /\ pc' = [pc EXCEPT ![m] = "lock"]
    /\ calls' = calls + 1
    /\ UNCHANGED <<modelVars, mu, ch, ret, workerVars, diskVars, crashed, fn, failures, hist>>

\* StoreImageRegistryConf, line 34: return fmt.Errorf(...), no lock taken.
Return(m) ==
    /\ ~crashed
    /\ pc[m] = "return"
    /\ pc' = [pc EXCEPT ![m] = "idle"]
    /\ ret' = [ret EXCEPT ![m] = call[m].err]
    /\ call' = [call EXCEPT ![m] = NoCall]
    /\ UNCHANGED <<modelVars, mu, ch, workerVars, diskVars, crashed, fn, calls,
                   failures, hist>>

CallStoreRegistryCerts(m) ==
    /\ CanCall(m)
    /\ \E tuples \in CertLists :
         call' = [call EXCEPT ![m] =
                    [NoCall EXCEPT !.op = "StoreRegistryCerts", !.certs = tuples]]
    /\ pc' = [pc EXCEPT ![m] = "lock"]
    /\ calls' = calls + 1
    /\ UNCHANGED <<modelVars, mu, ch, ret, workerVars, diskVars, crashed, fn, failures, hist>>

CallUpdateRegistryMirroringConfig(m) ==
    /\ CanCall(m)
    /\ \E registry \in Regs, mirrors \in MirrorLists :
         call' = [call EXCEPT ![m] =
                    [NoCall EXCEPT !.op = "UpdateRegistryMirroringConfig",
                                   !.registry = registry, !.mirrors = mirrors]]
    /\ pc' = [pc EXCEPT ![m] = "lock"]
    /\ calls' = calls + 1
    /\ UNCHANGED <<modelVars, mu, ch, ret, workerVars, diskVars, crashed, fn, failures, hist>>

CallDeleteRegistryMirroringConfig(m) ==
    /\ CanCall(m)
    /\ \E registry \in Regs :
         call' = [call EXCEPT ![m] =
                    [NoCall EXCEPT !.op = "DeleteRegistryMirroringConfig",
                                   !.registry = registry]]
    /\ pc' = [pc EXCEPT ![m] = "lock"]
    /\ calls' = calls + 1
    /\ UNCHANGED <<modelVars, mu, ch, ret, workerVars, diskVars, crashed, fn, failures, hist>>

CallCleanupRegistryMirroringConfig(m) ==
    /\ CanCall(m)
    /\ call' = [call EXCEPT ![m] =
                    [NoCall EXCEPT !.op = "CleanupRegistryMirroringConfig"]]
    /\ pc' = [pc EXCEPT ![m] = "lock"]
    /\ calls' = calls + 1
    /\ UNCHANGED <<modelVars, mu, ch, ret, workerVars, diskVars, crashed, fn, failures, hist>>

\* ------------------------------------------------------- s.mu and s.ch
\* Mutant of MutexFree: Lock does not wait for the holder.
MutexFree_Always(holder) == TRUE

\* sync.Mutex.Lock: whoever finds the mutex free takes it.
MutexFree(holder) == holder = NoOne

\* s.mu.Lock() of a mutator: it waits at "lock" until it finds the mutex free.
Lock(m) ==
    /\ pc[m] = "lock"
    /\ MutexFree(mu)
    /\ mu' = m

\* The end of a body that ran to its signal post.
Mutated(m) ==
    /\ pc' = [pc EXCEPT ![m] = "send"]
    /\ call' = [call EXCEPT ![m].ver = hist.ver + 1]
    /\ hist' = [hist EXCEPT !.ver = @ + 1]

\* The end of a body that panicked: unwinding starts, the lock still held.
Panicked(m) ==
    /\ pc' = [pc EXCEPT ![m] = "panic"]
    /\ UNCHANGED <<call, hist>>

bodyFrame == <<ch, ret, workerVars, diskVars, crashed, fn, calls, failures>>


\* -------------------------------------------- the mutators: locked bodies
\* StoreImageRegistryConf, lines 36-62: Lock, then the body.
StoreImageRegistryConf(m) ==
    /\ ~crashed
    /\ Lock(m)
    /\ call[m].op = "StoreImageRegistryConf"
    /\ LET r == StoreImageRegistryConfBody(CurM, call[m].allowed,
                                           call[m].blocked, call[m].insecure)
       IN  /\ SetM(r.M)
           /\ IF r.panic THEN Panicked(m) ELSE Mutated(m)
    /\ UNCHANGED registryCertTuples
    /\ UNCHANGED bodyFrame

\* Mutant of StoreRegistryCerts: the tuples are stored in a copy of the
\* syncer and never reach s.registryCertTuples.
StoreRegistryCerts_ToCopy(m) ==
    /\ ~crashed
    /\ Lock(m)
    /\ call[m].op = "StoreRegistryCerts"
    /\ Mutated(m)
    /\ UNCHANGED <<registriesConfContent, registryConfs, policyConfContent,
                   registryCertTuples>>
    /\ UNCHANGED bodyFrame

\* StoreRegistryCerts, lines 68-70.
StoreRegistryCerts(m) ==
    /\ ~crashed
    /\ Lock(m)
    /\ call[m].op = "StoreRegistryCerts"
    /\ registryCertTuples' = call[m].certs
    /\ Mutated(m)
    /\ UNCHANGED <<registriesConfContent, registryConfs, policyConfContent>>
    /\ UNCHANGED bodyFrame

\* UpdateRegistryMirroringConfig, lines 76-79.
UpdateRegistryMirroringConfig(m) ==
    /\ ~crashed
    /\ Lock(m)
    /\ call[m].op = "UpdateRegistryMirroringConfig"
    /\ LET r == UpdateRegistryMirroringConfigBody(CurM, call[m].registry,
                                                  call[m].mirrors)
       IN  /\ SetM(r.M)
           /\ IF r.panic THEN Panicked(m) ELSE Mutated(m)
    /\ UNCHANGED registryCertTuples
    /\ UNCHANGED bodyFrame

\* Mutant of DeleteRegistryMirroringConfig: the signal is posted before the
\* lookup result is looked at.
DeleteRegistryMirroringConfig_AlwaysSignals(m) ==
    /\ ~crashed
    /\ Lock(m)
    /\ call[m].op = "DeleteRegistryMirroringConfig"
    /\ IF getRegistryConf(registriesConfContent, call[m].registry)
       THEN /\ registryConfs' = [registryConfs EXCEPT ![call[m].registry].Mirrors = <<>>]
            /\ Mutated(m)
       ELSE /\ pc' = [pc EXCEPT ![m] = "send"]
            /\ call' = [call EXCEPT ![m].err = "NotFound"]
            /\ UNCHANGED <<registryConfs, hist>>
    /\ UNCHANGED <<registriesConfContent, policyConfContent, registryCertTuples>>
    /\ UNCHANGED bodyFrame

\* DeleteRegistryMirroringConfig, lines 85-92.
DeleteRegistryMirroringConfig(m) ==
    /\ ~crashed
    /\ Lock(m)
    /\ call[m].op = "DeleteRegistryMirroringConfig"
    /\ IF getRegistryConf(registriesConfContent, call[m].registry)
       THEN /\ registryConfs' = [registryConfs EXCEPT ![call[m].registry].Mirrors = <<>>]
            /\ Mutated(m)
       ELSE /\ pc' = [pc EXCEPT ![m] = "unlock"]
            /\ call' = [call EXCEPT ![m].err = "NotFound"]
            /\ UNCHANGED <<registryConfs, hist>>
    /\ UNCHANGED <<registriesConfContent, policyConfContent, registryCertTuples>>
    /\ UNCHANGED bodyFrame

\* Mutant of CleanupRegistryMirroringConfig: the cleanup also drops the
\* certificate tuples.
CleanupRegistryMirroringConfig_ClearsCerts(m) ==
    /\ ~crashed
    /\ Lock(m)
    /\ call[m].op = "CleanupRegistryMirroringConfig"
    /\ registryConfs' = ClearMirrorsOf(registryConfs, registriesConfContent.Registries)
    /\ registryCertTuples' = <<>>
    /\ Mutated(m)
    /\ UNCHANGED <<registriesConfContent, policyConfContent>>
    /\ UNCHANGED bodyFrame

\* CleanupRegistryMirroringConfig, lines 96-100.
CleanupRegistryMirroringConfig(m) ==
    /\ ~crashed
    /\ Lock(m)
    /\ call[m].op = "CleanupRegistryMirroringConfig"
    /\ registryConfs' = ClearMirrorsOf(registryConfs, registriesConfContent.Registries)
    /\ Mutated(m)
    /\ UNCHANGED <<registriesConfContent, policyConfContent, registryCertTuples>>
    /\ UNCHANGED bodyFrame

\* Mutant of Send: the post never waits for the receiver.
Send_NoWait(m) ==
    /\ ~crashed
    /\ pc[m] = "send"
    /\ ch' = Append(ch, m)
    /\ pc' = [pc EXCEPT ![m] = "unlock"]
    /\ UNCHANGED <<modelVars, mu, call, ret, workerVars, diskVars, crashed, fn,
                   calls, failures, hist>>

\* s.ch <- true.  The value joins the channel; with no room in the buffer
\* (there is none) the sender parks until the receiver has taken it.
Send(m) ==
    /\ ~crashed
    /\ pc[m] = "send"
    /\ ch' = Append(ch, m)
    /\ pc' = [pc EXCEPT ![m] = IF Len(ch) < chCap THEN "unlock" ELSE "parked"]
    /\ UNCHANGED <<modelVars, mu, call, ret, workerVars, diskVars, crashed, fn,
                   calls, failures, hist>>

\* return, then the deferred s.mu.Unlock().
Unlock(m) ==
    /\ ~crashed
    /\ pc[m] = "unlock"
    /\ mu' = NoOne
    /\ pc' = [pc EXCEPT ![m] = "idle"]
    /\ ret' = [ret EXCEPT ![m] = call[m].err]
    /\ call' = [call EXCEPT ![m] = NoCall]
    /\ hist' = [hist EXCEPT !.successes = IF call[m].err = "nil" THEN @ + 1 ELSE @]
    /\ UNCHANGED <<modelVars, ch, workerVars, diskVars, crashed, fn, calls, failures>>

\* A panicking body unwinds through the deferred s.mu.Unlock(); the calling
\* goroutine is gone.
PanicUnlock(m) ==
    /\ ~crashed
    /\ pc[m] = "panic"
    /\ mu' = NoOne
    /\ pc' = [pc EXCEPT ![m] = "dead"]
    /\ call' = [call EXCEPT ![m] = NoCall]
    /\ UNCHANGED <<modelVars, ch, ret, workerVars, diskVars, crashed, fn,
                   calls, failures, hist>>

\* No caller in the repository recovers: the runtime ends the process.
Exit ==
    /\ ~crashed
    /\ \E m \in Mutators : pc[m] = "dead"
    /\ crashed' = TRUE
    /\ UNCHANGED fn
    /\ UNCHANGED <<modelVars, mu, ch, pc, call, ret, workerVars, diskVars,
                   calls, failures, hist>>

\* ----------------------------------------------------- the syncer goroutine
\* case <-s.ch: take the oldest value; the sender parked behind the buffer
\* (with no buffer: the sender of that value) resumes.
Recv ==
    /\ ~crashed
    /\ wpc = "recv"
    /\ ch /= <<>>
    /\ ch' = Tail(ch)
    /\ LET sender == Head(ch)
           woken == IF Len(ch) > chCap THEN {ch[chCap + 1]} ELSE {}
       IN  /\ pc' = [m \in Mutators |-> IF m \in woken THEN "unlock" ELSE pc[m]]
           /\ call' = [call EXCEPT ![sender].delivered = TRUE]
           /\ hist' = [hist EXCEPT !.accepted = @ + 1,
                                   !.trig = call[sender].ver,
                                   !.trigCall = call[sender]]
    /\ wpc' = "lock"
    /\ UNCHANGED <<modelVars, mu, ret, wi, diskVars, crashed, fn, calls, failures>>

\* sync(), line 106: s.mu.Lock()
SyncLock ==
    /\ ~crashed
    /\ wpc = "lock"
    /\ MutexFree(mu)
    /\ mu' = Worker
    /\ wpc' = "writeRegistries"
    /\ UNCHANGED <<modelVars, ch, pc, call, ret, wi, diskVars, crashed, fn, calls,
                   failures, hist>>

CanFail == failures < MaxFailures

passFrame == <<modelVars, mu, ch, pc, call, ret, crashed, fn, calls, hist>>

\* sync(), lines 109-112; writeTomlFile: os.Create, then Encode.
WriteRegistriesConf ==
    /\ ~crashed
    /\ wpc = "writeRegistries"
    /\ \/ /\ diskRegistries' = Written(tomlEncode(registriesConfContent, registryConfs))
          /\ wpc' = "writePolicy"
          /\ UNCHANGED failures
       \/ /\ CanFail
          /\ diskRegistries' \in {diskRegistries, Partial}
          /\ wpc' = "unlock"
          /\ failures' = failures + 1
    /\ UNCHANGED <<wi, diskPolicy, diskCerts>>
    /\ UNCHANGED passFrame

\* Mutant of WritePolicyConf: the error is logged and the pass goes on.
WritePolicyConf_ContinuesOnError ==
    /\ ~crashed
    /\ wpc = "writePolicy"
    /\ \/ /\ diskPolicy' = Written(jsonEncode(policyConfContent))
          /\ UNCHANGED failures
       \/ /\ CanFail
          /\ diskPolicy' \in {diskPolicy, Partial}
          /\ failures' = failures + 1
    /\ wpc' = "removeCerts"
    /\ UNCHANGED <<wi, diskRegistries, diskCerts>>
    /\ UNCHANGED passFrame

\* sync(), lines 114-117; writeJSONFile: os.Create, then Encode.
WritePolicyConf ==
    /\ ~crashed
    /\ wpc = "writePolicy"
    /\ \/ /\ diskPolicy' = Written(jsonEncode(policyConfContent))
          /\ wpc' = "removeCerts"
          /\ UNCHANGED failures
       \/ /\ CanFail
          /\ diskPolicy' \in {diskPolicy, Partial}
          /\ wpc' = "unlock"
          /\ failures' = failures + 1
    /\ UNCHANGED <<wi, diskRegistries, diskCerts>>
    /\ UNCHANGED passFrame

\* Mutant of RemoveCertsDir: the old tree is left in place.
RemoveCertsDir_NoRemove ==
    /\ ~crashed
    /\ wpc = "removeCerts"
    /\ wpc' = "writeCerts"
    /\ wi' = 1
    /\ UNCHANGED <<diskCerts, failures>>
    /\ UNCHANGED <<diskRegistries, diskPolicy>>
    /\ UNCHANGED passFrame

\* sync(), lines 119-122: os.RemoveAll(DockerCertsDir); a failing RemoveAll
\* may have removed part of the tree.
RemoveCertsDir ==
    /\ ~crashed
    /\ wpc = "removeCerts"
    /\ \/ /\ diskCerts' = [f \in Folders |-> NoDir]
          /\ wpc' = "writeCerts"
          /\ wi' = 1
          /\ UNCHANGED failures
       \/ /\ CanFail
          /\ diskCerts' \in {d \in [Folders -> {NoDir, NoFile, PartialFile, "c1", "c2"}] :
                                \A f \in Folders : d[f] \in {diskCerts[f], NoDir}}
          /\ wpc' = "unlock"
          /\ failures' = failures + 1
          /\ UNCHANGED wi
    /\ UNCHANGED <<diskRegistries, diskPolicy>>
    /\ UNCHANGED passFrame

\* sync(), lines 124-129 with registryCertTuple.writeToFile: MkdirAll if the
\* folder is missing, os.Create of ca.crt, WriteString.
WriteRegistryCert ==
    /\ ~crashed
    /\ wpc = "writeCerts"
    /\ wi <= Len(registryCertTuples)
    /\ LET tuple == registryCertTuples[wi]
           folder == getFolderName(tuple)
       IN  \/ /\ diskCerts' = [diskCerts EXCEPT ![folder] = tuple.cert]
              /\ wi' = wi + 1
              /\ UNCHANGED <<wpc, failures>>
           \/ /\ CanFail
              /\ \/ diskCerts' = diskCerts
                 \/ diskCerts' = [diskCerts EXCEPT ![folder] =
                                     IF @ = NoDir THEN NoFile ELSE @]
                 \/ diskCerts' = [diskCerts EXCEPT ![folder] = PartialFile]
              /\ wpc' = "unlock"
              /\ failures' = failures + 1
              /\ UNCHANGED wi
    /\ UNCHANGED <<diskRegistries, diskPolicy>>
    /\ UNCHANGED passFrame

\* Mutant of SyncUnlock: syncer() returns on the first failed pass.
SyncUnlock_StopsOnError ==
    /\ ~crashed
    /\ \/ wpc = "unlock"
       \/ wpc = "writeCerts" /\ wi > Len(registryCertTuples)
    /\ mu' = NoOne
    /\ wpc' = IF wpc = "unlock" THEN "stopped" ELSE "recv"
    /\ wi' = 1
    /\ hist' = [hist EXCEPT !.passes = @ + 1,
                             !.lastPass = IF wpc = "writeCerts"
                                          THEN [ok |-> TRUE,
                                                tuples |-> registryCertTuples,
                                                tree |-> diskCerts]
                                          ELSE @]
    /\ UNCHANGED <<modelVars, ch, pc, call, ret, diskVars, crashed, fn, calls, failures>>

\* sync() returns through the deferred s.mu.Unlock(); syncer() logs an error
\* and loops back to the select.
SyncUnlock ==
    /\ ~crashed
    /\ \/ wpc = "unlock"
       \/ wpc = "writeCerts" /\ wi > Len(registryCertTuples)
    /\ mu' = NoOne
    /\ wpc' = "recv"
    /\ wi' = 1
    /\ hist' = [hist EXCEPT !.passes = @ + 1,
                             !.lastPass = IF wpc = "writeCerts"
                                          THEN [ok |-> TRUE,
                                                tuples |-> registryCertTuples,
                                                tree |-> diskCerts]
                                          ELSE @]
    /\ UNCHANGED <<modelVars, ch, pc, call, ret, diskVars, crashed, fn, calls, failures>>

\* ------------------------------------------------------------ specification
Next ==
    \/ \E m \in Mutators : CallStoreImageRegistryConf(m)
    \/ \E m \in Mutators : Return(m)
    \/ \E m \in Mutators : CallStoreRegistryCerts(m)
    \/ \E m \in Mutators : CallUpdateRegistryMirroringConfig(m)
    \/ \E m \in Mutators : CallDeleteRegistryMirroringConfig(m)
    \/ \E m \in Mutators : CallCleanupRegistryMirroringConfig(m)
    \/ \E m \in Mutators : StoreImageRegistryConf(m)
    \/ \E m \in Mutators : StoreRegistryCerts(m)
    \/ \E m \in Mutators : UpdateRegistryMirroringConfig(m)
    \/ \E m \in Mutators : DeleteRegistryMirroringConfig(m)
    \/ \E m \in Mutators : CleanupRegistryMirroringConfig(m)
    \/ \E m \in Mutators : Send(m)
    \/ \E m \in Mutators : Unlock(m)
    \/ \E m \in Mutators : PanicUnlock(m)
    \/ Exit
    \/ Recv
    \/ SyncLock
    \/ WriteRegistriesConf
    \/ WritePolicyConf
    \/ RemoveCertsDir
    \/ WriteRegistryCert
    \/ SyncUnlock

Spec == Init /\ [][Next]_vars

\* The goroutines are scheduled fairly: a step that stays possible is taken.
\* The calls themselves come from outside and need never come; the process
\* exit that follows an unrecovered panic is certain.
Progress ==
    \/ \E m \in Mutators : Return(m)
    \/ \E m \in Mutators : StoreImageRegistryConf(m)
    \/ \E m \in Mutators : StoreRegistryCerts(m)
    \/ \E m \in Mutators : UpdateRegistryMirroringConfig(m)
    \/ \E m \in Mutators : DeleteRegistryMirroringConfig(m)
    \/ \E m \in Mutators : CleanupRegistryMirroringConfig(m)
    \/ \E m \in Mutators : Send(m)
    \/ \E m \in Mutators : Unlock(m)
    \/ \E m \in Mutators : PanicUnlock(m)
    \/ Exit
    \/ Recv
    \/ SyncLock
    \/ WriteRegistriesConf
    \/ WritePolicyConf
    \/ RemoveCertsDir
    \/ WriteRegistryCert
    \/ SyncUnlock

LiveSpec == Spec /\ WF_vars(Progress)

\* getFolderName on its own: a name is chosen, the function is applied.
FolderInit ==
    /\ InitSyncer
    /\ fn \in {[arg |-> n, result |-> <<>>, done |-> FALSE] : n \in Names}

EvalGetFolderName ==
    /\ ~fn.done
    /\ fn' = [fn EXCEPT !.result = getFolderName([registry |-> fn.arg, cert |-> ""]),
                        !.done = TRUE]
    /\ UNCHANGED <<modelVars, mu, ch, pc, call, ret, workerVars, diskVars,
                   crashed, calls, failures, hist>>

FolderNext == EvalGetFolderName

FolderSpec == FolderInit /\ [][FolderNext]_vars

\* ------------------------------------------------- vocabulary of the claims
\* The mutator has run its body and still holds the lock.
InCritical(m) == pc[m] \in {"send", "parked", "unlock", "panic"}

\* The worker is inside sync(), between Lock and the deferred Unlock.
WorkerInPass ==
    wpc \in {"writeRegistries", "writePolicy", "removeCerts", "writeCerts", "unlock"}

Range(seq) == {seq[i] : i \in 1..Len(seq)}

\* Every call has returned and the worker waits for a signal.
Quiescent ==
    /\ \A m \in Mutators : pc[m] = "idle"
    /\ wpc = "recv"
    /\ ch = <<>>

\* The certificate tree a tuple sequence stands for: per folder, the
\* certificate of the last tuple that maps to it.
RECURSIVE CertTree(_)
CertTree(tuples) ==
    IF tuples = <<>> THEN [f \in Folders |-> NoDir]
    ELSE LET n == Len(tuples)
         IN  [CertTree(SubSeq(tuples, 1, n - 1)) EXCEPT
                 ![getFolderName(tuples[n])] = tuples[n].cert]

\* The three artifacts hold exactly the current model.
DiskMatchesModel ==
    /\ diskRegistries = Written(tomlEncode(registriesConfContent, registryConfs))
    /\ diskPolicy = Written(jsonEncode(policyConfContent))
    /\ diskCerts = CertTree(registryCertTuples)

\* Posts that have completed and whose pass has not finished.
PendingPasses ==
    (hist.accepted - hist.passes)
        + Cardinality({i \in 1..Len(ch) : pc[ch[i]] /= "parked"})

\* ----------------------------------------------------------------- claims
\* C1: no deadlock is reachable: never does a mutator hold the lock blocked
\* on its signal post while the worker is blocked acquiring that lock.
C1_NoDeadlock ==
    ~ \E m \in Mutators : mu = m /\ pc[m] = "parked" /\ wpc = "lock"


\* C2: every accepted signal is eventually followed by its own pass; passes
\* never outnumber signals, signals are neither coalesced nor lost.  (A
\* process that has exited runs nothing; the claim is about one that lives.)
C2_EveryAcceptedSignalGetsItsPass ==
    /\ [](hist.passes <= hist.accepted)
    /\ \A k \in 1..MaxCalls :
          (hist.accepted >= k) ~> (hist.passes >= k \/ crashed)

C4_ReturnAfterAcceptance ==
    [][\A m \in Mutators :
          (pc[m] = "unlock" /\ pc'[m] = "idle" /\ ret'[m] = "nil")
              => call[m].delivered]_vars

\* The successful call has returned while its pass has not yet taken the lock.
C4_Witness ==
    /\ hist.successes = 1
    /\ \A m \in Mutators : pc[m] = "idle"
    /\ hist.accepted = 1
    /\ hist.passes = 0
    /\ wpc = "lock"

\* C5: the model a pass reads is never older than the mutation whose signal
\* triggered the pass: it contains that mutation's effect.
C5_SnapshotAtLeastAsNew ==
    WorkerInPass =>
        /\ hist.ver >= hist.trig
        /\ (hist.ver = hist.trig /\ hist.trigCall.op = "StoreRegistryCerts")
              => registryCertTuples = hist.trigCall.certs

C5_Witness ==
    /\ wpc = "writeCerts"
    /\ hist.trigCall.op = "StoreRegistryCerts"
    /\ hist.trigCall.certs = <<CertT2, CertT1>>
    /\ hist.ver = hist.trig
    /\ wi = 2

\* C6: at most one goroutine is inside the locked region at a time, and no
\* mutation changes the model while a persistence pass is running.
C6_MutualExclusion ==
    /\ [](Cardinality({m \in Mutators : InCritical(m)})
            + (IF WorkerInPass THEN 1 ELSE 0) <= 1)
    /\ [][WorkerInPass => modelVars' = modelVars]_vars

\* A mutator waits for the lock while the worker is inside a pass.
C6_Witness ==
    /\ WorkerInPass
    /\ mu = Worker
    /\ \E m \in Mutators : pc[m] = "lock"

\* C7: never more than one pass is queued or running, and a post completes
\* only in a step in which the worker, ready to receive, takes it.
C7_AtMostOnePendingPass ==
    /\ [](PendingPasses <= 1)
    /\ [][\A m \in Mutators :
            (pc[m] \in {"send", "parked"} /\ pc'[m] = "unlock")
                => (wpc = "recv" /\ wpc' = "lock")]_vars

\* A second mutator is parked on its post while the pass of the first signal
\* has not finished.
C7_Witness ==
    /\ hist.accepted = 1
    /\ hist.passes = 0
    /\ \E m \in Mutators : pc[m] = "parked"


\* ------------------------------------------- the registries / policy model
\* The entries the model holds: those the index or the sequence refers to.
IndexedLocations ==
    IF registriesConfContent.registriesMap.isNil THEN {}
    ELSE registriesConfContent.registriesMap.keys

SequenceLocations == Range(registriesConfContent.Registries)

KnownEntries == IndexedLocations \cup SequenceLocations

IsBlocked(r) == r \in KnownEntries /\ registryConfs[r].Blocked = TrueValue
IsAllowed(r) == r \in KnownEntries /\ registryConfs[r].Allowed = TrueValue

HasRejectOn(r, t) ==
    /\ r \in policyConfContent.Transports[t].keys
    /\ rejectPolicyEntry \in Range(policyConfContent.Transports[t].val[r])

HasReject(r) == HasRejectOn(r, dockerTransport) /\ HasRejectOn(r, atomicTransport)

\* Mutator m is in a call of op whose body has run, the lock still held.
Acted(m, op) == call[m].op = op /\ InCritical(m)

\* C8: a reject rule exists for R on docker and on atomic exactly when R is
\* blocked in the registries model; a SetRegistryPolicy call blocks the
\* registries of its blocked set, and one whose blocked set lacks R leaves no
\* reject rule for R.
C8_RejectIffBlocked ==
    /\ \A r \in Regs : HasReject(r) <=> IsBlocked(r)
    /\ \A m \in Mutators : Acted(m, "StoreImageRegistryConf") =>
          /\ \A r \in Range(call[m].blocked) : IsBlocked(r)
          /\ \A r \in Regs \ Range(call[m].blocked) : ~HasReject(r)

\* C9: allowed entries and blocked entries never coexist, whatever
\* SetRegistryPolicy calls have run: a call that allows A leaves A allowed
\* and nothing blocked, a call that blocks B leaves B blocked and nothing
\* allowed.
C9_AllowedBlockedExclusive ==
    /\ ~ ((\E r \in Regs : IsAllowed(r)) /\ (\E r \in Regs : IsBlocked(r)))
    /\ \A m \in Mutators : Acted(m, "StoreImageRegistryConf") =>
          /\ \A r \in Range(call[m].allowed) : IsAllowed(r)
          /\ call[m].allowed /= <<>> => ~ \E r \in Regs : IsBlocked(r)
          /\ call[m].blocked /= <<>> => ~ \E r \in Regs : IsAllowed(r)

\* C10: the by-location index and the sequence refer to the same entries, no
\* two entries of the sequence share a location, and the entry a SetMirrors
\* or SetRegistryPolicy call creates is in both.
C10_IndexMatchesSequence ==
    /\ IndexedLocations = SequenceLocations
    /\ Cardinality(SequenceLocations) = Len(registriesConfContent.Registries)
    /\ \A m \in Mutators :
          /\ Acted(m, "UpdateRegistryMirroringConfig")
                => call[m].registry \in IndexedLocations \cap SequenceLocations
          /\ Acted(m, "StoreImageRegistryConf")
                => Range(call[m].allowed) \cup Range(call[m].blocked)
                      \cup Range(call[m].insecure)
                        \subseteq IndexedLocations \cap SequenceLocations


\* ------------------------------------------------ the mutation operations
IsInsecure(r) == r \in KnownEntries /\ registryConfs[r].Insecure = TrueValue

BothNonEmpty(c) == Len(c.allowed) > 0 /\ Len(c.blocked) > 0

\* The transport rules SetRegistryPolicy is to leave for a blocked list: the
\* defaults plus one reject rule per blocked registry on docker and atomic.
ExpectedRuleKeys(t, blocked) ==
    IF t = dockerDaemonTransport THEN {""} ELSE Range(blocked)

ExpectedRules(t, k) ==
    IF t = dockerDaemonTransport
    THEN <<insecureAcceptAnythingPolicyEntry>>
    ELSE <<rejectPolicyEntry>>

\* C11: a SetRegistryPolicy call whose allowed and blocked lists are not both
\* non-empty succeeds and leaves every allowed registry allowed and not
\* blocked, every blocked registry blocked and not allowed, every insecure
\* registry insecure, and a reject rule for every blocked registry on docker
\* and atomic.
C11_PolicyApplied ==
    \A m \in Mutators :
        (Acted(m, "StoreImageRegistryConf") /\ ~BothNonEmpty(call[m])) =>
            /\ pc[m] /= "panic"
            /\ \A r \in Range(call[m].allowed) : IsAllowed(r) /\ ~IsBlocked(r)
            /\ \A r \in Range(call[m].blocked) :
                  IsBlocked(r) /\ ~IsAllowed(r) /\ HasReject(r)
            /\ \A r \in Range(call[m].insecure) : IsInsecure(r)

\* C12: SetRegistryPolicy replaces the whole state: once its body has run the
\* allowed, blocked and insecure entries are exactly those of its three
\* lists and the transport rules are the defaults plus reject rules for
\* exactly the blocked registries.
C12_FullStateReplacement ==
    \A m \in Mutators :
        Acted(m, "StoreImageRegistryConf") =>
            /\ {r \in Regs : IsAllowed(r)} = Range(call[m].allowed)
            /\ {r \in Regs : IsBlocked(r)} = Range(call[m].blocked)
            /\ {r \in Regs : IsInsecure(r)} = Range(call[m].insecure)
            /\ \A t \in TransportNames :
                  /\ policyConfContent.Transports[t].keys
                        = ExpectedRuleKeys(t, call[m].blocked)
                  /\ \A k \in policyConfContent.Transports[t].keys :
                        policyConfContent.Transports[t].val[k] = ExpectedRules(t, k)

\* C13: SetRegistryPolicy with allowed and blocked both non-empty returns
\* InvalidArgument, changes nothing in the model, posts no signal and never
\* holds the lock.
C13_InvalidArgumentLeavesNoTrace ==
    /\ [](\A m \in Mutators :
            (call[m].op = "StoreImageRegistryConf" /\ BothNonEmpty(call[m]))
                => /\ pc[m] = "return"
                   /\ call[m].err = "InvalidArgument"
                   /\ mu /= m
                   /\ m \notin Range(ch))
    /\ [][\A m \in Mutators :
            ((pc[m] = "return") /= (pc'[m] = "return"))
                => /\ modelVars' = modelVars
                   /\ mu' = mu
                   /\ ch' = ch
                   /\ hist' = hist
                   /\ wpc' = wpc
                   /\ (pc[m] = "return" => ret'[m] = "InvalidArgument")]_vars

C13_Witness ==
    \E m \in Mutators :
        /\ ret[m] = "InvalidArgument"
        /\ pc[m] = "idle"
        /\ hist.accepted = 0
        /\ mu = NoOne
        /\ calls = 1

\* C14: SetMirrors(r, m) succeeds for every r, creates r's entry if absent and
\* leaves r's mirror list equal to m; ClearMirrors(r) on an existing entry
\* succeeds and leaves the entry with an empty mirror list.
C14_SetThenClearMirrors ==
    \A m \in Mutators :
        /\ Acted(m, "UpdateRegistryMirroringConfig") =>
              /\ pc[m] /= "panic"
              /\ call[m].registry \in IndexedLocations
              /\ registryConfs[call[m].registry].Mirrors = call[m].mirrors
        /\ (Acted(m, "DeleteRegistryMirroringConfig")
                /\ call[m].registry \in IndexedLocations) =>
              /\ call[m].err = "nil"
              /\ registryConfs[call[m].registry].Mirrors = <<>>

\* C15: ClearMirrors(r) for a registry without an entry returns NotFound,
\* changes nothing in the model, posts no signal and releases the lock.
C15_NotFoundLeavesNoTrace ==
    /\ [](\A m \in Mutators :
            (call[m].op = "DeleteRegistryMirroringConfig" /\ pc[m] /= "lock"
                /\ call[m].registry \notin IndexedLocations)
                => /\ pc[m] = "unlock"
                   /\ call[m].err = "NotFound"
                   /\ ~call[m].delivered
                   /\ m \notin Range(ch))
    /\ [][\A m \in Mutators :
            (call[m].op = "DeleteRegistryMirroringConfig" /\ pc'[m] /= pc[m]
                /\ call[m].registry \notin IndexedLocations)
                => /\ modelVars' = modelVars
                   /\ ch' = ch
                   /\ hist'.accepted = hist.accepted
                   /\ (pc[m] = "unlock" =>
                          mu' = NoOne /\ ret'[m] = "NotFound")]_vars

\* ClearMirrors has returned NotFound, the lock is free, and a pass has run.
C15_Witness ==
    /\ \E m \in Mutators : ret[m] = "NotFound" /\ pc[m] = "idle"
    /\ mu = NoOne
    /\ hist.passes = 1
    /\ Quiescent

\* C16: once the body of ClearAllMirrors has run, every entry the model
\* holds, the entries created by earlier SetMirrors calls among them, has an
\* empty mirror list.
C16_ClearAllMirrors ==
    \A m \in Mutators :
        /\ Acted(m, "CleanupRegistryMirroringConfig") =>
              \A r \in KnownEntries : registryConfs[r].Mirrors = <<>>
        /\ Acted(m, "UpdateRegistryMirroringConfig") =>
              call[m].registry \in KnownEntries


\* ------------------------------------------------------ the persistence pass
\* The pass has written its last certificate: nothing in it has failed.
PassComplete == wpc = "writeCerts" /\ wi > Len(registryCertTuples)

PassSteps == {"writeRegistries", "writePolicy", "removeCerts", "writeCerts"}

\* The order in which the syncer moves: receive, lock, the four steps, and
\* from any step to the deferred unlock on failure.
PassOrder ==
    {<<"recv", "lock">>, <<"lock", "writeRegistries">>,
     <<"writeRegistries", "writePolicy">>, <<"writePolicy", "removeCerts">>,
     <<"removeCerts", "writeCerts">>, <<"writeCerts", "recv">>,
     <<"unlock", "recv">>}
        \cup {<<st, "unlock">> : st \in PassSteps}

\* C17: after ReplaceCertificates(B) and a pass without failure the
\* directories under the trust root are exactly the folder names of B, each
\* with its tuple's certificate; directories of an earlier set are gone, and
\* writing the same set again leaves the same tree.
C17_CertTreeIsExactlyTheTuples ==
    PassComplete =>
        /\ {f \in Folders : diskCerts[f] /= NoDir}
              = {getFolderName(t) : t \in Range(registryCertTuples)}
        /\ \A t \in Range(registryCertTuples) : diskCerts[getFolderName(t)] = t.cert
        /\ (hist.lastPass.ok /\ hist.lastPass.tuples = registryCertTuples)
              => diskCerts = hist.lastPass.tree

\* The pass before wrote r for <<CertT1>>; this one, for the disjoint
\* <<CertT2>>, has left r:5 only.
C17_Witness ==
    /\ PassComplete
    /\ hist.lastPass.ok
    /\ hist.lastPass.tuples = <<CertT1>>
    /\ hist.lastPass.tree[<<"r">>] = "c1"
    /\ registryCertTuples = <<CertT2>>
    /\ diskCerts[<<"r">>] = NoDir
    /\ diskCerts[<<"r", ":", "5">>] = "c2"

\* C18: a pass runs registries, policy, delete, certificates in that order;
\* each artifact is touched in its own step only, a failing step ends the
\* pass, and nothing is written after it.
C18_OrderedAndStopsAtFirstFailure ==
    [][/\ (wpc' /= wpc => <<wpc, wpc'>> \in PassOrder)
       /\ (diskRegistries' /= diskRegistries => wpc = "writeRegistries")
       /\ (diskPolicy' /= diskPolicy => wpc = "writePolicy")
       /\ (diskCerts' /= diskCerts => wpc \in {"removeCerts", "writeCerts"})
       /\ (failures' /= failures => wpc \in PassSteps /\ wpc' = "unlock" /\ wi' = wi)
       /\ (wpc = "unlock" => diskVars' = diskVars)]_vars

\* The policy write of the second pass has failed; the tree of the first
\* pass is as it was.
C18_Witness ==
    /\ wpc = "unlock"
    /\ failures = 1
    /\ hist.lastPass.ok
    /\ hist.lastPass.tuples = <<CertT1>>
    /\ diskRegistries.state = "written"
    /\ diskPolicy = Partial
    /\ diskCerts = hist.lastPass.tree
    /\ diskCerts[<<"r">>] = "c1"

\* C19: a failing step is not reported to any mutator and changes nothing in
\* the model; the failed pass releases the lock and the worker goes back to
\* the receive; the next accepted signal starts a pass at step 1 that writes
\* the model as it then is.
C19_FailedPassDoesNotStopWorker ==
    /\ [](\A m \in Mutators : ret[m] \in {"none", "nil", "InvalidArgument", "NotFound"})
    /\ []((wpc = "unlock" /\ ~crashed) => ENABLED SyncUnlock)
    /\ [][/\ (failures' /= failures =>
                modelVars' = modelVars /\ pc' = pc /\ ret' = ret /\ call' = call)
          /\ ((wpc = "unlock" /\ wpc' /= wpc) =>
                wpc' = "recv" /\ mu' = NoOne /\ modelVars' = modelVars)
          /\ ((wpc = "lock" /\ wpc' /= wpc) =>
                wpc' = "writeRegistries" /\ mu' = Worker)
          /\ ((wpc = "writeRegistries" /\ wpc' = "writePolicy") =>
                diskRegistries' = Written(tomlEncode(registriesConfContent,
                                                     registryConfs)))]_vars

\* After a failed pass a later pass is under way and has written the
\* registries artifact again.
C19_Witness ==
    /\ failures = 1
    /\ hist.passes = 1
    /\ ~hist.lastPass.ok
    /\ wpc = "writePolicy"
    /\ diskRegistries = Written(tomlEncode(registriesConfContent, registryConfs))

\* ------------------------------------------------------- folder-name mapping
DotDotAt(s, i) == i < Len(s) /\ s[i] = "." /\ s[i + 1] = "."

\* Position of the first ".." of s, 0 if there is none.
FirstDotDot(s) ==
    IF \E i \in 1..Len(s) : DotDotAt(s, i)
    THEN CHOOSE i \in 1..Len(s) :
            DotDotAt(s, i) /\ \A j \in 1..(i - 1) : ~DotDotAt(s, j)
    ELSE 0

\* C20: the folder name is the registry name with its first ".." replaced by
\* ":" and every other character unchanged: a name without ".." maps to
\* itself, docker.io..5000 to docker.io:5000, a second ".." stays.
C20_FolderNameReplacesFirstDotDot ==
    fn.done =>
        LET s == fn.arg
            i == FirstDotDot(s)
        IN  /\ i = 0 => fn.result = s
            /\ i > 0 => fn.result
                          = SubSeq(s, 1, i - 1) \o <<":">> \o SubSeq(s, i + 2, Len(s))
            /\ s = DockerIo => fn.result = DockerIo
            /\ s = DockerIo5000
                  => fn.result = DockerIo \o <<":", "5", "0", "0", "0">>

C20_Witness ==
    /\ fn.done
    /\ fn.arg = TwoEscapes
    /\ fn.result = <<"d", ":", "5", ".", ".", "5">>


\* ------------------------------------------------- entries and the artifact
\* The registries a call names, whose entries it is to create or update.
NamedBy(c) ==
    IF c.op = "UpdateRegistryMirroringConfig" THEN {c.registry}
    ELSE IF c.op = "StoreImageRegistryConf" /\ ~BothNonEmpty(c)
         THEN Range(c.allowed) \cup Range(c.blocked) \cup Range(c.insecure)
         ELSE {}

\* The blocks of the registries artifact as last written in full.
WrittenBlocks ==
    IF diskRegistries.state = "written"
    THEN Range(diskRegistries.content.registries)
    ELSE {}

\* C21: every entry the model holds reaches the registries artifact: a
\* SetMirrors or SetRegistryPolicy call whose body has run has put each
\* registry it names into the sequence the encoder walks, and a pass that has
\* just written the artifact has written, for every entry of the model, a
\* block with its location, mirror list and flags.
C21_EntriesReachArtifact ==
    /\ \A m \in Mutators :
          InCritical(m) => NamedBy(call[m]) \subseteq SequenceLocations
    /\ wpc = "writePolicy" =>
          \A r \in KnownEntries : tomlBlock(registryConfs[r]) \in WrittenBlocks


\* ------------------------------------------------------------ frame effects
Flags(rc) == <<rc.Blocked, rc.Allowed, rc.Insecure>>

\* This step is the locked body of mutator m's call.
BodyStep(m) == pc[m] = "lock" /\ pc'[m] /= "lock"

FlagsUnchanged == \A r \in Regs : Flags(registryConfs'[r]) = Flags(registryConfs[r])
MirrorsUnchanged(rs) ==
    \A r \in rs : registryConfs'[r].Mirrors = registryConfs[r].Mirrors
PolicyUnchanged == policyConfContent' = policyConfContent
CertsUnchanged == registryCertTuples' = registryCertTuples

\* C22: each mutation changes only its own part of the model.  The model
\* changes in the locked body of a call and nowhere else; SetMirrors(r, m)
\* and ClearMirrors(r) leave every other entry's mirror list, all flags, the
\* policy rules and the certificate tuples as they were; ClearAllMirrors
\* leaves the flags, the policy rules and the tuples; SetRegistryPolicy leaves
\* every mirror list and the tuples; ReplaceCertificates leaves the
\* registries and policy models.
C22_FrameEffects ==
    [][/\ (modelVars' /= modelVars => \E m \in Mutators : BodyStep(m))
       /\ \A m \in Mutators : BodyStep(m) =>
            LET op == call[m].op IN
            /\ op \in {"UpdateRegistryMirroringConfig",
                       "DeleteRegistryMirroringConfig"} =>
                  /\ MirrorsUnchanged(Regs \ {call[m].registry})
                  /\ IndexedLocations' \subseteq IndexedLocations \cup {call[m].registry}
                  /\ FlagsUnchanged /\ PolicyUnchanged /\ CertsUnchanged
            /\ op = "CleanupRegistryMirroringConfig" =>
                  /\ KnownEntries' = KnownEntries
                  /\ FlagsUnchanged /\ PolicyUnchanged /\ CertsUnchanged
            /\ op = "StoreImageRegistryConf" =>
                  MirrorsUnchanged(Regs) /\ CertsUnchanged
            /\ op = "StoreRegistryCerts" =>
                  /\ registriesConfContent' = registriesConfContent
                  /\ registryConfs' = registryConfs
                  /\ PolicyUnchanged]_vars

\* ReplaceCertificates has changed the tuples and nothing else, and the body
\* of a later ClearAllMirrors has run with the tuples still in place.
C22_Witness ==
    /\ \E m \in Mutators :
          Acted(m, "CleanupRegistryMirroringConfig") /\ pc[m] = "send"
    /\ registryCertTuples = <<CertT2, CertT1>>
    /\ registriesConfContent = defaultRegistriesConf
    /\ policyConfContent = defaultPolicyConf
    /\ \A r \in Regs : registryConfs[r] = NewRegistryConf(r)

====
